---- MODULE Spec2Model ----
(***************************************************************************)
(* Model of tracing-splunk-layer (src/src/lib.rs): the SplunkHecLayer      *)
(* hooks on_new_span, on_event, on_record, on_enter and on_close, the      *)
(* EventStorage visitor they record fields with, and the part of the host  *)
(* (a tracing_subscriber registry driven from one thread) that the hooks   *)
(* read: the live spans, their parents, the stack of entered spans and     *)
(* the per-span extension slots.                                           *)
(***************************************************************************)
EXTENDS Integers, Sequences, FiniteSets, TLC

(***************************************************************************)
(* Bounds of the model.                                                    *)
(***************************************************************************)
\* number of span ids the host hands out
MaxSpans == 2
\* stand-in for u64::MAX (2^64 - 1), scaled to fit TLC's integers
U64Max == 60
\* number of nested on_event frames the thread's stack can hold
StackLimit == 3
\* number of threads that run hooks at the same time
MaxThreads == 2
\* number of hooks the host calls on these threads
MaxCalls == 4

\* the sleep of the span test, in milliseconds
SleepMs == 50
\* the last instant of the model's clock: one past the largest u64
MaxTime == U64Max + 1

Spans == 1..MaxSpans
\* "no span": span.parent() == None, ctx.lookup_current() == None
NoSpan == 0
Threads == 1..MaxThreads
\* "no Instant in the extensions"
NoInstant == -1

(***************************************************************************)
(* Field values.  What the host offers to the visitor is a typed value     *)
(* (or Empty: a field declared and not yet given a value, which the host   *)
(* does not visit); what the store holds is a serde_json::Value.           *)
(***************************************************************************)
Names == {"level", "other_field", "a_bool", "answer", "message", "elapsed_time"}

Empty == [k |-> "Empty", v |-> 0]
I64(n) == [k |-> "i64", v |-> n]
U64(n) == [k |-> "u64", v |-> n]
F64(n) == [k |-> "f64", v |-> n]
F64NaN == [k |-> "f64nan", v |-> 0]
Bool(b) == [k |-> "bool", v |-> b]
Str(s) == [k |-> "str", v |-> s]
Debug(s) == [k |-> "debug", v |-> s]

\* serde_json::Value variants; Absent: the map has no entry under the name
Absent == [k |-> "Absent", v |-> 0]
JNull == [k |-> "Null", v |-> 0]
JNumber(n) == [k |-> "Number", v |-> n]
JFloat(n) == [k |-> "Float", v |-> n]
JBool(b) == [k |-> "Bool", v |-> b]
JString(s) == [k |-> "String", v |-> s]

\* HashMap::new()
EmptyHash == [n \in Names |-> Absent]

\* format!("{:?}", value) of the values the model offers as debuggable: the
\* unit, an Option without a value, and a string, which Debug quotes
FormatDebug(x) ==
    CASE x = "unit" -> "()"
      [] x = "none" -> "None"
      [] OTHER -> "\"" \o x \o "\""

record_debug(value) == JString(FormatDebug(value.v))
\* serde_json::Value::from(f64) is Null for a value that is not finite
record_f64(value) == IF value.k = "f64nan" THEN JNull ELSE JFloat(value.v)
record_i64(value) == JNumber(value.v)
record_u64(value) == JNumber(value.v)
record_bool(value) == JBool(value.v)
record_str(value) == JString(value.v)

\* VisitValue with a record_debug that stores nothing
VisitValueKnownKinds(value) ==
    CASE value.k = "i64" -> record_i64(value)
      [] value.k = "u64" -> record_u64(value)
      [] value.k = "f64" -> record_f64(value)
      [] value.k = "f64nan" -> record_f64(value)
      [] value.k = "bool" -> record_bool(value)
      [] value.k = "str" -> record_str(value)
      [] OTHER -> Absent

\* the record_* method the host calls for a value of each kind
VisitValue(value) ==
    CASE value.k = "i64" -> record_i64(value)
      [] value.k = "u64" -> record_u64(value)
      [] value.k = "f64" -> record_f64(value)
      [] value.k = "f64nan" -> record_f64(value)
      [] value.k = "bool" -> record_bool(value)
      [] value.k = "str" -> record_str(value)
      [] OTHER -> record_debug(value)

\* Record with an insert that keeps the entry a name already has
RecordKeepFirst(hash, fields) ==
    [n \in Names |-> IF fields[n] = Empty \/ hash[n] # Absent THEN hash[n]
                                                            ELSE VisitValue(fields[n])]

\* attrs.record(&mut visitor), values.record(visitor), event.record(visitor):
\* every field that has a value is visited and inserted under its name
Record(hash, fields) ==
    [n \in Names |-> IF fields[n] = Empty THEN hash[n] ELSE VisitValue(fields[n])]


(***************************************************************************)
(* The field sets the host offers.  The first four are those of the span   *)
(* test; UserElapsed is a user field that takes the synthetic field's      *)
(* name, NoFields a span without attributes.                               *)
(***************************************************************************)
NoFields == [n \in Names |-> Empty]
\* info_span!("outer", level = 0, other_field = tracing::field::Empty)
OuterAttrs == [NoFields EXCEPT !["level"] = I64(0)]
\* debug_span!("inner", level = 1)
InnerAttrs == [NoFields EXCEPT !["level"] = I64(1)]
\* outer_span.record("other_field", &7)
OuterRecord == [NoFields EXCEPT !["other_field"] = I64(7)]
\* info!(a_bool = true, answer = 42, message = "first example")
InfoEvent ==
    [NoFields EXCEPT !["a_bool"] = Bool(TRUE), !["answer"] = I64(42),
                     !["message"] = Str("first example")]
UserElapsed == [NoFields EXCEPT !["elapsed_time"] = Str("user")]


\* what the host offers at a span's creation, in an update and in an event:
\* fields of one name with two values
AttrSets == {NoFields, OuterAttrs, InnerAttrs}
ValueSets == {InnerAttrs}
EventSets == {OuterAttrs}

\* the same, with the user's field named elapsed_time
UserAttrSets == {NoFields, UserElapsed}
UserValueSets == {UserElapsed}
UserEventSets == {UserElapsed}

(***************************************************************************)
(* State.                                                                  *)
(***************************************************************************)
VARIABLES
    created,    \* host: the span ids handed out so far
    closed,     \* host: the spans whose close has been notified
    parent,     \* host: span.parent() of each span, NoSpan for a root
    stack,      \* host: the thread's stack of entered spans, current span last
    slot,       \* extensions: the EventStorage attached to each span, NoAddr for none
    heap,       \* the hash map of each EventStorage allocated
    instant,    \* extensions: the Instant attached to each span, NoInstant for none
    now,        \* Instant::now(), in milliseconds
    emitted,    \* the records printed by on_close, oldest first
    crashed,    \* "no", or how the thread died: "panic", "stack_overflow"
    found,      \* what the notification raised last came upon, where the state
                \* after it does not show it: see the host's actions
    pc,         \* the statement of the span test to run next, 0 outside the test
    lock,       \* extensions: who holds the RwLock of each span's extensions
    thread,     \* the hook each thread is in, where hooks run step by step
    calls       \* the number of hooks called on the threads so far

vars == <<created, closed, parent, stack, slot, heap, instant, now, emitted,
          crashed, found, pc, lock, thread, calls>>

NoAddr == 0
NoThread == 0
\* on_close printed nothing
NoRecord == <<>>
Addrs == 1..MaxSpans

Live == created \ closed
\* ctx.lookup_current()
lookup_current == IF stack = <<>> THEN NoSpan ELSE stack[Len(stack)]
\* the fields of the EventStorage attached to a span
Store(s) == heap[slot[s]]
OnStack(s) == \E i \in 1..Len(stack) : stack[i] = s
Children(s) == {c \in Live : parent[c] = s}

\* an RwLock that nobody holds
Unlocked == [writer |-> NoThread, readers |-> {}]
\* a thread that is in no hook
Idle == [hook |-> "idle", pc |-> "idle", id |-> NoSpan, fields |-> NoFields,
         local |-> EmptyHash]

InitState ==
    /\ created = {}
    /\ closed = {}
    /\ parent = [s \in Spans |-> NoSpan]
    /\ stack = <<>>
    /\ slot = [s \in Spans |-> NoAddr]
    /\ heap = [a \in Addrs |-> EmptyHash]
    /\ instant = [s \in Spans |-> NoInstant]
    /\ now = 0
    /\ emitted = <<>>
    /\ crashed = "no"
    /\ found = {}
    /\ lock = [s \in Spans |-> Unlocked]
    /\ thread = [t \in Threads |-> Idle]
    /\ calls = 0

Init == InitState /\ pc = 0

(***************************************************************************)
(* EventStorage.                                                           *)
(***************************************************************************)
\* EventStorage::new(): a new storage, allocated at fresh, with an empty map
EventStorage_new(fresh) == [addr |-> fresh, hash |-> EmptyHash]

\* to_owned as the copy of a reference: the storage itself is shared
to_owned_shared(c, fresh) == [addr |-> c, hash |-> heap[c]]

\* c.to_owned(): a clone of storage c, allocated at fresh
to_owned(c, fresh) == [addr |-> fresh, hash |-> heap[c]]

(***************************************************************************)
(* The hooks.                                                              *)
(***************************************************************************)
\* on_new_span without the parent's fields
on_new_span_fresh(attrs, id) ==
    /\ heap' = [heap EXCEPT ![id] = Record(EmptyHash, attrs)]
    /\ slot' = [slot EXCEPT ![id] = id]
    /\ UNCHANGED <<instant, emitted, crashed>>

\* on_new_span that unwraps the parent's storage
on_new_span_unwrap(attrs, id) ==
    LET p == parent'[id]
    IN  IF p # NoSpan /\ slot[p] = NoAddr
        THEN crashed' = "panic" /\ UNCHANGED <<heap, slot, instant, emitted>>
        ELSE LET event_visitor == IF p # NoSpan THEN to_owned(slot[p], id)
                                                ELSE EventStorage_new(id)
             IN  /\ heap' = [heap EXCEPT ![event_visitor.addr] =
                                Record(event_visitor.hash, attrs)]
                 /\ slot' = [slot EXCEPT ![id] = event_visitor.addr]
                 /\ UNCHANGED <<instant, emitted, crashed>>

\* on_new_span that hands the parent's Instant on to the child
on_new_span_started(attrs, id) ==
    LET p == parent'[id]
        event_visitor ==
            IF p # NoSpan /\ slot[p] # NoAddr THEN to_owned(slot[p], id)
                                              ELSE EventStorage_new(id)
    IN  /\ heap' = [heap EXCEPT ![event_visitor.addr] = Record(event_visitor.hash, attrs)]
        /\ slot' = [slot EXCEPT ![id] = event_visitor.addr]
        /\ instant' = [instant EXCEPT ![id] = IF p # NoSpan THEN instant[p] ELSE NoInstant]
        /\ UNCHANGED <<emitted, crashed>>

\* on_new_span that starts the store with an elapsed_time of 0
on_new_span_elapsed(attrs, id) ==
    LET p == parent'[id]
        event_visitor ==
            IF p # NoSpan /\ slot[p] # NoAddr THEN to_owned(slot[p], id)
                                              ELSE EventStorage_new(id)
    IN  /\ heap' = [heap EXCEPT ![event_visitor.addr] =
                       [Record(event_visitor.hash, attrs) EXCEPT !["elapsed_time"] = JNumber(0)]]
        /\ slot' = [slot EXCEPT ![id] = event_visitor.addr]
        /\ UNCHANGED <<instant, emitted, crashed>>

on_new_span(attrs, id) ==
    LET p == parent'[id]
        event_visitor ==
            IF p # NoSpan
            THEN IF slot[p] # NoAddr THEN to_owned(slot[p], id)
                                     ELSE EventStorage_new(id)
            ELSE EventStorage_new(id)
    IN  /\ heap' = [heap EXCEPT ![event_visitor.addr] = Record(event_visitor.hash, attrs)]
        /\ slot' = [slot EXCEPT ![id] = event_visitor.addr]
        /\ UNCHANGED <<instant, emitted, crashed>>

\* on_event that attributes an event without a span to the newest span
on_event_to_newest(event, guarded) ==
    LET span == IF lookup_current # NoSpan THEN lookup_current ELSE Cardinality(created)
    IN  IF span # NoSpan /\ slot[span] # NoAddr
        THEN /\ heap' = [heap EXCEPT ![slot[span]] = Record(@, event)]
             /\ UNCHANGED crashed
        ELSE UNCHANGED <<heap, crashed>>

\* on_event that merges the event into the store of the current span's parent
\* as well
on_event_to_parent(event, guarded) ==
    LET span == lookup_current
    IN  IF span # NoSpan
        THEN IF slot[span] = NoAddr
             THEN crashed' = "panic" /\ UNCHANGED heap
             ELSE /\ heap' = [a \in Addrs |->
                                 IF \E s \in {span, parent[span]} \ {NoSpan} : slot[s] = a
                                 THEN Record(heap[a], event) ELSE heap[a]]
                  /\ UNCHANGED crashed
        ELSE /\ crashed' = (IF guarded THEN "no" ELSE "stack_overflow")
             /\ UNCHANGED heap

\* the frames of on_event that the diagnostic of an event without a span
\* stacks up: the debug! event is dispatched like any other, and a dispatcher
\* that does not guard against re-entrancy hands it to on_event again
RECURSIVE Diagnostic(_, _)
Diagnostic(guarded, depth) ==
    IF guarded THEN "no"
    ELSE IF depth >= StackLimit THEN "stack_overflow"
    ELSE Diagnostic(guarded, depth + 1)

\* guarded: whether the host's dispatcher drops an event raised while it is
\* dispatching one (it is the host's, and differs between dispatchers)
on_event(event, guarded) ==
    LET span == lookup_current
    IN  IF span # NoSpan
        THEN IF slot[span] = NoAddr
             THEN crashed' = "panic" /\ UNCHANGED heap
             ELSE /\ heap' = [heap EXCEPT ![slot[span]] = Record(@, event)]
                  /\ UNCHANGED crashed
        ELSE crashed' = Diagnostic(guarded, 1) /\ UNCHANGED heap

\* on_record that hands the values on to the stores of the span's children
on_record_handed_on(id, values) ==
    IF slot[id] = NoAddr
    THEN crashed' = "panic" /\ UNCHANGED heap
    ELSE /\ heap' = [a \in Addrs |->
                        IF \E s \in {id} \cup Children(id) : slot[s] = a
                        THEN Record(heap[a], values) ELSE heap[a]]
         /\ UNCHANGED crashed

on_record(id, values) ==
    IF slot[id] = NoAddr
    THEN crashed' = "panic" /\ UNCHANGED heap
    ELSE /\ heap' = [heap EXCEPT ![slot[id]] = Record(@, values)]
         /\ UNCHANGED crashed

\* on_enter that inserts the Instant at every entry
on_enter_reset(id) == instant' = [instant EXCEPT ![id] = now]

on_enter(id) ==
    IF instant[id] = NoInstant
    THEN instant' = [instant EXCEPT ![id] = now]
    ELSE UNCHANGED instant

\* t.elapsed().as_millis(), a u128
as_millis(t) == now - t

\* on_close with an insert that keeps a field the store already has
on_close_keep(id) ==
    LET millis == IF instant[id] = NoInstant THEN 0 ELSE now - instant[id]
        event_fields == IF Store(id)["elapsed_time"] # Absent THEN Store(id)
                        ELSE [Store(id) EXCEPT !["elapsed_time"] = JNumber(millis)]
    IN  IF millis > U64Max
        THEN [crashed |-> "panic", heap |-> heap, printed |-> <<>>]
        ELSE [crashed |-> "no",
              heap |-> [heap EXCEPT ![slot[id]] = event_fields],
              printed |-> <<[span |-> id, fields |-> event_fields]>>]

\* on_close that measures a span without an Instant from the clock's origin
on_close_from_origin(id) ==
    LET millis == IF instant[id] = NoInstant THEN now ELSE now - instant[id]
        event_fields == [Store(id) EXCEPT !["elapsed_time"] = JNumber(millis)]
    IN  IF millis > U64Max
        THEN [crashed |-> "panic", heap |-> heap, printed |-> <<>>]
        ELSE [crashed |-> "no",
              heap |-> [heap EXCEPT ![slot[id]] = event_fields],
              printed |-> <<[span |-> id, fields |-> event_fields]>>]

\* what on_close does: the store after it, the record it prints (NoRecord
\* for none) and whether it panicked.  The try_into() of a count of
\* milliseconds that is no u64 is an Err, which unwrap() turns into a panic.
on_close(id) ==
    LET millis == IF instant[id] = NoInstant THEN 0 ELSE as_millis(instant[id])
    IN  IF millis > U64Max \/ slot[id] = NoAddr
        THEN [crashed |-> "panic", heap |-> heap, printed |-> NoRecord]
        ELSE LET event_fields == [Store(id) EXCEPT !["elapsed_time"] = JNumber(millis)]
             IN  [crashed |-> "no",
                  heap |-> [heap EXCEPT ![slot[id]] = event_fields],
                  printed |-> <<[span |-> id, fields |-> event_fields]>>]

(***************************************************************************)
(* The host: one thread that creates, enters, exits and closes spans,      *)
(* records fields and raises events, in the order a registry allows.       *)
(***************************************************************************)
NewSpan(p, attrs) ==
    LET id == Cardinality(created) + 1
    IN  /\ found' = {}
        /\ crashed = "no"
        /\ id \in Spans
        /\ p \in Live \cup {NoSpan}
        /\ created' = created \cup {id}
        /\ parent' = [parent EXCEPT ![id] = p]
        /\ on_new_span(attrs, id)
        /\ UNCHANGED <<closed, stack, now, lock, thread, calls>>

Event(event, guarded) ==
    /\ found' = IF lookup_current = NoSpan THEN {"no_current_span"} ELSE {}
    /\ crashed = "no"
    /\ on_event(event, guarded)
    /\ UNCHANGED <<created, closed, parent, stack, slot, instant, now, emitted,
                   lock, thread, calls>>

RecordFields(id, values) ==
    /\ found' = {}
    /\ crashed = "no"
    /\ id \in Live
    /\ on_record(id, values)
    /\ UNCHANGED <<created, closed, parent, stack, slot, instant, now, emitted,
                   lock, thread, calls>>

Enter(id) ==
    /\ found' = IF instant[id] = NoInstant THEN {} ELSE {"instant_set_before"}
    /\ crashed = "no"
    /\ id \in Live
    /\ ~OnStack(id)
    /\ stack' = Append(stack, id)
    /\ on_enter(id)
    /\ UNCHANGED <<created, closed, parent, slot, heap, now, emitted, crashed,
                   lock, thread, calls>>

\* the layer has no on_exit: leaving a span only changes the current span
Exit ==
    /\ found' = {}
    /\ crashed = "no"
    /\ stack # <<>>
    /\ stack' = SubSeq(stack, 1, Len(stack) - 1)
    /\ UNCHANGED <<created, closed, parent, slot, heap, instant, now,
                   emitted, crashed, lock, thread, calls>>

\* A span closes when no handle, no entry and no child refers to it.  After
\* on_close has returned the host destroys the span and, with it, its
\* extensions; a panic in on_close ends the thread before that.
Close(id) ==
    /\ crashed = "no"
    /\ id \in Live
    /\ ~OnStack(id)
    /\ Children(id) = {}
    /\ found' = (IF instant[id] = NoInstant THEN {"no_instant"} ELSE {})
                 \cup (IF Store(id)["elapsed_time"] # Absent
                       THEN {"elapsed_time_taken"} ELSE {})
    /\ LET done == on_close(id)
       IN  /\ crashed' = done.crashed
           /\ emitted' = emitted \o done.printed
           /\ closed' = closed \cup {id}
           /\ IF done.crashed = "no"
              THEN /\ heap' = [done.heap EXCEPT ![slot[id]] = EmptyHash]
                   /\ slot' = [slot EXCEPT ![id] = NoAddr]
                   /\ instant' = [instant EXCEPT ![id] = NoInstant]
                   /\ parent' = [parent EXCEPT ![id] = NoSpan]
              ELSE UNCHANGED <<heap, slot, instant, parent>>
    /\ UNCHANGED <<created, stack, now, lock, thread, calls>>

TickSizes == {SleepMs, U64Max + 1}

Tick(d) ==
    /\ found' = {}
    /\ crashed = "no"
    /\ now + d <= MaxTime
    /\ now' = now + d
    /\ UNCHANGED <<created, closed, parent, stack, slot, heap, instant,
                   emitted, crashed, lock, thread, calls>>

\* what the host may do next, with fields drawn from the given sets
Host(attrsets, valuesets, eventsets) ==
    \/ \E p \in Spans \cup {NoSpan}, attrs \in attrsets :
          NewSpan(p, attrs) /\ UNCHANGED pc
    \/ \E event \in eventsets, guarded \in BOOLEAN :
          Event(event, guarded) /\ UNCHANGED pc
    \/ \E id \in Spans, values \in valuesets :
          RecordFields(id, values) /\ UNCHANGED pc
    \/ \E id \in Spans : Enter(id) /\ UNCHANGED pc
    \/ Exit /\ UNCHANGED pc
    \/ \E id \in Spans : Close(id) /\ UNCHANGED pc
    \/ \E d \in TickSizes : Tick(d) /\ UNCHANGED pc

Next == Host(AttrSets, ValueSets, EventSets)

Spec == Init /\ [][Next]_vars

NextUser == Host(UserAttrSets, UserValueSets, UserEventSets)

SpecUser == Init /\ [][NextUser]_vars

(***************************************************************************)
(* A host with a span the layer is never notified of: it was created       *)
(* before the layer was installed, or the layer was disabled for it.  It   *)
(* has no EventStorage, and all the layer sees of it is that it is the     *)
(* parent of other spans.                                                  *)
(***************************************************************************)
ForeignSpan == 1

InitForeign ==
    /\ created = {ForeignSpan}
    /\ closed = {}
    /\ parent = [s \in Spans |-> NoSpan]
    /\ stack = <<>>
    /\ slot = [s \in Spans |-> NoAddr]
    /\ heap = [a \in Addrs |-> EmptyHash]
    /\ instant = [s \in Spans |-> NoInstant]
    /\ now = 0
    /\ emitted = <<>>
    /\ crashed = "no"
    /\ found = {}
    /\ lock = [s \in Spans |-> Unlocked]
    /\ thread = [t \in Threads |-> Idle]
    /\ calls = 0
    /\ pc = 0

\* the spans the host notifies the layer of
Notified == Spans \ {ForeignSpan}

NextForeign ==
    \/ \E p \in Spans \cup {NoSpan}, attrs \in AttrSets :
          NewSpan(p, attrs) /\ UNCHANGED pc
    \/ \E event \in EventSets, guarded \in BOOLEAN :
          Event(event, guarded) /\ UNCHANGED pc
    \/ \E id \in Notified, values \in ValueSets :
          RecordFields(id, values) /\ UNCHANGED pc
    \/ \E id \in Notified : Enter(id) /\ UNCHANGED pc
    \/ Exit /\ UNCHANGED pc
    \/ \E id \in Notified : Close(id) /\ UNCHANGED pc
    \/ \E d \in TickSizes : Tick(d) /\ UNCHANGED pc

SpecForeign == InitForeign /\ [][NextForeign]_vars

(***************************************************************************)
(* The visitor over every kind of value: spans created in the current      *)
(* span, updates and events whose fields are of each kind the host can     *)
(* offer.  No span is closed, no time passes and at most one span is        *)
(* entered at a time.  MaxKindSpans bounds the spans created.               *)
(***************************************************************************)
MaxKindSpans == 1

KindValues ==
    {I64(1), U64(7), F64(2), F64NaN, Bool(TRUE), Str("s"),
     Debug("none"), Debug("unit"), Debug("s")}

\* a field set with two fields, one of them debuggable only
TwoFields == [NoFields EXCEPT !["level"] = U64(7), !["other_field"] = Debug("none")]

KindSets == {[NoFields EXCEPT !["level"] = value] : value \in KindValues} \cup {TwoFields}

NextKinds ==
    \/ \E attrs \in KindSets :
          /\ Cardinality(created) < MaxKindSpans
          /\ NewSpan(lookup_current, attrs)
          /\ UNCHANGED pc
    \/ \E event \in KindSets, guarded \in BOOLEAN :
          Event(event, guarded) /\ UNCHANGED pc
    \/ \E id \in Spans, values \in KindSets :
          RecordFields(id, values) /\ UNCHANGED pc
    \/ \E id \in Spans : stack = <<>> /\ Enter(id) /\ UNCHANGED pc
    \/ Exit /\ UNCHANGED pc

SpecKinds == Init /\ [][NextKinds]_vars

(***************************************************************************)
(* The span test (tests/spans.rs), statement by statement, with time       *)
(* passing between the statements.  The spans are created in the current   *)
(* span, and the handles and guards are dropped in the reverse order of    *)
(* their declaration when the test function returns.                       *)
(***************************************************************************)
\* the milliseconds that may pass besides the sleep
MaxDelay == 3
Outer == 1
Inner == 2
Done == 12

Statement(n) == pc = n /\ pc' = n + 1

InitTest == InitState /\ pc = 1

TestNext ==
    \/ Statement(1) /\ NewSpan(lookup_current, OuterAttrs)
    \/ Statement(2) /\ Enter(Outer)
    \/ Statement(3) /\ Tick(SleepMs)
    \/ Statement(4) /\ NewSpan(lookup_current, InnerAttrs)
    \/ Statement(5) /\ Enter(Inner)
    \/ Statement(6) /\ RecordFields(Outer, OuterRecord)
    \/ Statement(7) /\ \E guarded \in BOOLEAN : Event(InfoEvent, guarded)
    \/ Statement(8) /\ Exit
    \/ Statement(9) /\ Close(Inner)
    \/ Statement(10) /\ Exit
    \/ Statement(11) /\ Close(Outer)
    \/ /\ pc < Done
       /\ now < (IF pc > 3 THEN SleepMs ELSE 0) + MaxDelay
       /\ Tick(1)
       /\ UNCHANGED pc

SpecTest == InitTest /\ [][TestNext]_vars

(***************************************************************************)
(* The hooks step by step, on several threads.  A step is what a hook does *)
(* between two points where it takes or gives up the RwLock of a span's    *)
(* extensions; a merge visits one field per step.  The host calls a hook   *)
(* on a thread that is in none, for a span it may notify: one whose        *)
(* on_new_span has returned and whose on_close has not been called.        *)
(***************************************************************************)
\* a value set of two fields, which a merge inserts one after the other
BothFields == [NoFields EXCEPT !["level"] = I64(1), !["other_field"] = I64(7)]

LockAttrSets == {NoFields}
LockValueSets == {BothFields}

\* the order in which a value set hands its fields to the visitor
FieldOrder == <<"level", "other_field", "a_bool", "answer", "message", "elapsed_time">>

\* the first field of a value set, for one that has a field
FirstField(fields) ==
    FieldOrder[CHOOSE i \in 1..Len(FieldOrder) :
                   /\ fields[FieldOrder[i]] # Empty
                   /\ \A j \in 1..(i - 1) : fields[FieldOrder[j]] = Empty]

InHook(t) == thread[t].hook # "idle"

\* the spans whose extensions a thread holds a guard of
Held(t) == {s \in Spans : lock[s].writer = t \/ t \in lock[s].readers}

\* RwLock::write, RwLock::read and the drop of a guard
CanWrite(s) == lock[s] = Unlocked
CanRead(s) == lock[s].writer = NoThread
Write(t, s) == [lock EXCEPT ![s].writer = t]
Read(t, s) == [lock EXCEPT ![s].readers = @ \cup {t}]
Drop(t, s) ==
    [lock EXCEPT ![s] = [writer |-> IF @.writer = t THEN NoThread ELSE @.writer,
                         readers |-> @.readers \ {t}]]

\* the host may notify the layer of the span
Ready(s) ==
    /\ s \in Live
    /\ \A t \in Threads :
          thread[t].hook \in {"on_new_span", "on_close"} => thread[t].id # s

\* the thread goes on to the next step of its hook, or returns from it
Goto(t, label) == [thread EXCEPT ![t].pc = label]
Return(t) == [thread EXCEPT ![t] = Idle]

\* what no step changes
Aside == <<stack, now, found, pc>>
\* nor any but the first
Within == <<stack, now, found, pc, calls>>

\* the host calls a hook on a thread that is in none; which of them is all
\* the same, and it is the first
Call(t, hook, label, id, fields) ==
    /\ crashed = "no"
    /\ ~InHook(t)
    /\ \A u \in 1..(t - 1) : InHook(u)
    /\ calls < MaxCalls
    /\ calls' = calls + 1
    /\ thread' = [thread EXCEPT ![t] = [hook |-> hook, pc |-> label, id |-> id,
                                        fields |-> fields, local |-> EmptyHash]]
    /\ UNCHANGED <<closed, slot, heap, instant, emitted, crashed, lock>>
    /\ UNCHANGED Aside

Call_on_new_span(t, p, attrs) ==
    LET id == Cardinality(created) + 1
    IN  /\ id \in Spans
        /\ p = NoSpan \/ Ready(p)
        /\ created' = created \cup {id}
        /\ parent' = [parent EXCEPT ![id] = p]
        /\ Call(t, "on_new_span", IF p = NoSpan THEN "record" ELSE "parent", id, attrs)

Call_on_record(t, id, values) ==
    /\ Ready(id)
    /\ Call(t, "on_record", "lock", id, values)
    /\ UNCHANGED <<created, parent>>

\* the event of a thread whose current span is id, which was entered for that
Call_on_event(t, id, event) ==
    /\ Ready(id)
    /\ instant[id] # NoInstant
    /\ Call(t, "on_event", "lock", id, event)
    /\ UNCHANGED <<created, parent>>

Call_on_enter(t, id) ==
    /\ Ready(id)
    /\ Call(t, "on_enter", "lock", id, NoFields)
    /\ UNCHANGED <<created, parent>>

\* the host closes a span that no child and no call in progress refers to
Call_on_close(t, id) ==
    /\ Ready(id)
    /\ Children(id) = {}
    /\ \A u \in Threads : thread[u].id # id
    /\ Call(t, "on_close", "read", id, NoFields)
    /\ UNCHANGED <<created, parent>>

\* a step of the hook the thread is in, at the given label
At(t, hooks, label) ==
    /\ crashed = "no"
    /\ thread[t].hook \in hooks
    /\ thread[t].pc = label
    /\ UNCHANGED Within

\* new_span_parent that reads the parent's extensions without a guard
new_span_parent_unguarded(t) ==
    /\ At(t, {"on_new_span"}, "parent")
    /\ thread' = Goto(t, "clone")
    /\ UNCHANGED <<created, closed, parent, slot, heap, instant, emitted,
                   crashed, lock>>

\* on_new_span: let mut extensions = parent.extensions_mut()
new_span_parent(t) ==
    /\ At(t, {"on_new_span"}, "parent")
    /\ CanWrite(parent[thread[t].id])
    /\ lock' = Write(t, parent[thread[t].id])
    /\ thread' = Goto(t, "clone")
    /\ UNCHANGED <<created, closed, parent, slot, heap, instant, emitted, crashed>>

\* on_new_span: the clone of the parent's storage, or a default one, and the
\* end of the block, where the guard is dropped
new_span_clone(t) ==
    LET id == thread[t].id
        p == parent[id]
        event_visitor == IF slot[p] # NoAddr THEN to_owned(slot[p], id)
                                             ELSE EventStorage_new(id)
    IN  /\ At(t, {"on_new_span"}, "clone")
        /\ lock' = Drop(t, p)
        /\ thread' = [thread EXCEPT ![t].pc = "record", ![t].local = event_visitor.hash]
        /\ UNCHANGED <<created, closed, parent, slot, heap, instant, emitted, crashed>>

\* on_new_span: attrs.record(&mut event_visitor) and span.extensions_mut()
new_span_record(t) ==
    /\ At(t, {"on_new_span"}, "record")
    /\ CanWrite(thread[t].id)
    /\ lock' = Write(t, thread[t].id)
    /\ thread' = [thread EXCEPT ![t].pc = "insert",
                                ![t].local = Record(@, thread[t].fields)]
    /\ UNCHANGED <<created, closed, parent, slot, heap, instant, emitted, crashed>>

\* on_new_span: extensions.insert::<EventStorage>(event_visitor), and the return
new_span_insert(t) ==
    LET id == thread[t].id
    IN  /\ At(t, {"on_new_span"}, "insert")
        /\ heap' = [heap EXCEPT ![id] = thread[t].local]
        /\ slot' = [slot EXCEPT ![id] = id]
        /\ lock' = Drop(t, id)
        /\ thread' = Return(t)
        /\ UNCHANGED <<created, closed, parent, instant, emitted, crashed>>

\* on_event, on_record, on_enter, on_close: span.extensions_mut()
span_extensions_mut(t) ==
    /\ At(t, {"on_event", "on_record", "on_enter", "on_close"}, "lock")
    /\ CanWrite(thread[t].id)
    /\ lock' = Write(t, thread[t].id)
    /\ thread' = Goto(t, "locked")
    /\ UNCHANGED <<created, closed, parent, slot, heap, instant, emitted, crashed>>

\* on_event, on_record: the visitor is handed the next field; after the last
\* one the hook returns
visit_field(t) ==
    LET id == thread[t].id
        n == FirstField(thread[t].fields)
        rest == [thread[t].fields EXCEPT ![n] = Empty]
    IN  /\ At(t, {"on_event", "on_record"}, "locked")
        /\ IF slot[id] = NoAddr
           THEN crashed' = "panic" /\ UNCHANGED <<heap, lock, thread, calls>>
           ELSE /\ heap' = [heap EXCEPT ![slot[id]][n] = VisitValue(thread[t].fields[n])]
                /\ IF rest = NoFields
                   THEN lock' = Drop(t, id) /\ thread' = Return(t)
                   ELSE lock' = lock /\ thread' = [thread EXCEPT ![t].fields = rest]
                /\ UNCHANGED crashed
        /\ UNCHANGED <<created, closed, parent, slot, instant, emitted>>

\* on_enter: the Instant is inserted where there is none, and the hook returns
enter_insert(t) ==
    /\ At(t, {"on_enter"}, "locked")
    /\ on_enter(thread[t].id)
    /\ lock' = Drop(t, thread[t].id)
    /\ thread' = Return(t)
    /\ UNCHANGED <<created, closed, parent, slot, heap, emitted, crashed>>

\* on_close: let extensions = span.extensions()
close_extensions(t) ==
    /\ At(t, {"on_close"}, "read")
    /\ CanRead(thread[t].id)
    /\ lock' = Read(t, thread[t].id)
    /\ thread' = Goto(t, "elapsed")
    /\ UNCHANGED <<created, closed, parent, slot, heap, instant, emitted, crashed>>

\* close_elapsed with a read guard that lives to the end of on_close
close_elapsed_kept(t) ==
    LET id == thread[t].id
        millis == IF instant[id] = NoInstant THEN 0 ELSE as_millis(instant[id])
    IN  /\ At(t, {"on_close"}, "elapsed")
        /\ thread' = [thread EXCEPT ![t].pc = "lock",
                                    ![t].local["elapsed_time"] = JNumber(millis)]
        /\ UNCHANGED <<created, closed, parent, slot, heap, instant, emitted,
                       crashed, lock>>

\* on_close: the elapsed time is computed and the block ends, where the guard
\* is dropped
close_elapsed(t) ==
    LET id == thread[t].id
        millis == IF instant[id] = NoInstant THEN 0 ELSE as_millis(instant[id])
    IN  /\ At(t, {"on_close"}, "elapsed")
        /\ IF millis > U64Max
           THEN crashed' = "panic" /\ UNCHANGED <<lock, thread, calls>>
           ELSE /\ lock' = Drop(t, id)
                /\ thread' = [thread EXCEPT ![t].pc = "lock",
                                            ![t].local["elapsed_time"] = JNumber(millis)]
                /\ UNCHANGED crashed
        /\ UNCHANGED <<created, closed, parent, slot, heap, instant, emitted>>

\* on_close: elapsed_time is inserted and the record printed; after the return
\* the host destroys the span
close_print(t) ==
    LET id == thread[t].id
    IN  /\ At(t, {"on_close"}, "locked")
        /\ IF slot[id] = NoAddr
           THEN /\ crashed' = "panic"
                /\ UNCHANGED <<closed, parent, slot, heap, instant, emitted, lock, thread, calls>>
           ELSE LET event_fields ==
                        [Store(id) EXCEPT !["elapsed_time"] = thread[t].local["elapsed_time"]]
                IN  /\ emitted' = Append(emitted, [span |-> id, fields |-> event_fields])
                    /\ closed' = closed \cup {id}
                    /\ heap' = [heap EXCEPT ![slot[id]] = EmptyHash]
                    /\ slot' = [slot EXCEPT ![id] = NoAddr]
                    /\ instant' = [instant EXCEPT ![id] = NoInstant]
                    /\ parent' = [parent EXCEPT ![id] = NoSpan]
                    /\ lock' = Drop(t, id)
                    /\ thread' = Return(t)
                    /\ UNCHANGED crashed
        /\ UNCHANGED created

NextLocks ==
    \/ \E t \in Threads, p \in Spans \cup {NoSpan}, attrs \in LockAttrSets :
          Call_on_new_span(t, p, attrs)
    \/ \E t \in Threads, id \in Spans, values \in LockValueSets :
          Call_on_record(t, id, values)
    \/ \E t \in Threads, id \in Spans, event \in LockValueSets :
          Call_on_event(t, id, event)
    \/ \E t \in Threads, id \in Spans : Call_on_enter(t, id)
    \/ \E t \in Threads, id \in Spans : Call_on_close(t, id)
    \/ \E t \in Threads : new_span_parent(t)
    \/ \E t \in Threads : new_span_clone(t)
    \/ \E t \in Threads : new_span_record(t)
    \/ \E t \in Threads : new_span_insert(t)
    \/ \E t \in Threads : span_extensions_mut(t)
    \/ \E t \in Threads : visit_field(t)
    \/ \E t \in Threads : enter_insert(t)
    \/ \E t \in Threads : close_extensions(t)
    \/ \E t \in Threads : close_elapsed(t)
    \/ \E t \in Threads : close_print(t)

SpecLocks == Init /\ [][NextLocks]_vars

(***************************************************************************)
(* The claims.                                                             *)
(***************************************************************************)
\* the store of a span after the step
StoreNext(s) == heap'[slot'[s]]
\* the record printed by the step
Printed == emitted'[Len(emitted')]
Records(s) == {i \in 1..Len(emitted) : emitted[i].span = s}

\* C1: the store a span has right after on_new_span is its parent's store at
\* that instant overridden by the span's own attributes, name by name, and
\* just its own attributes when it has no parent.
C1_StoreAtCreation ==
    [][\A p \in Spans \cup {NoSpan}, attrs \in AttrSets :
          NewSpan(p, attrs) =>
              \A n \in Names :
                  StoreNext(Cardinality(created) + 1)[n] =
                      IF attrs[n] # Empty THEN VisitValue(attrs[n])
                      ELSE IF p # NoSpan THEN Store(p)[n]
                      ELSE Absent]_vars

\* a child whose level has overridden the level its parent had at the
\* child's creation
C1_Witness ==
    \E s \in Live :
        /\ parent[s] # NoSpan
        /\ Store(parent[s])["level"] = JNumber(0)
        /\ Store(s)["level"] = JNumber(1)

\* C2: the store of a span that stays live changes only in an on_record of
\* that span or in an event raised while it is the current span: nothing done
\* to its parent reaches it.
C2_SnapshotIsolation ==
    [][\A s \in Spans :
          (s \in Live /\ s \in Live' /\ StoreNext(s) # Store(s)) =>
              \/ \E values \in ValueSets : RecordFields(s, values)
              \/ /\ lookup_current = s
                 /\ \E event \in EventSets, guarded \in BOOLEAN : Event(event, guarded)]_vars

\* a parent with a field that its child lacks, which therefore was recorded
\* after the child's creation
C2_Witness ==
    \E s \in Live :
        /\ parent[s] # NoSpan
        /\ Store(parent[s])["level"] # Absent
        /\ Store(s)["level"] = Absent

\* C3: the first on_enter of a span sets its start instant to the time of
\* that entry, nothing changes it while the span lives (a later on_enter
\* least of all), and the elapsed time printed at close is the time since it.
C3_StartAtFirstEnter ==
    [][\A id \in Spans :
          /\ Enter(id) =>
                 instant'[id] = IF instant[id] = NoInstant THEN now ELSE instant[id]
          /\ (id \in Live /\ id \in Live' /\ instant[id] # NoInstant) =>
                 instant'[id] = instant[id]
          /\ (Close(id) /\ instant[id] # NoInstant /\ crashed' = "no") =>
                 Printed.fields["elapsed_time"] = JNumber(now - instant[id])]_vars

\* a span entered again, later than its first entry
C3_Witness ==
    /\ found = {"instant_set_before"}
    /\ lookup_current # NoSpan
    /\ instant[lookup_current] # NoInstant
    /\ instant[lookup_current] < now

\* C4: at the end of the span test two records are printed, first that of
\* "inner", then that of "outer".  The record of "inner" has level = 1 and the
\* three fields of the event, and its elapsed time counts from inner's own
\* entry, which is at least the sleep later than outer's; the record of
\* "outer" has level = 0, other_field = 7 and an elapsed time of at least the
\* sleep.
C4_SpanTest ==
    /\ (pc > 5 /\ pc <= 9) => instant[Inner] >= instant[Outer] + SleepMs
    /\ pc = Done =>
          /\ crashed = "no"
          /\ Len(emitted) = 2
          /\ emitted[1].span = Inner
          /\ emitted[1].fields["level"] = JNumber(1)
          /\ emitted[1].fields["a_bool"] = JBool(TRUE)
          /\ emitted[1].fields["answer"] = JNumber(42)
          /\ emitted[1].fields["message"] = JString("first example")
          /\ emitted[1].fields["elapsed_time"].k = "Number"
          /\ emitted[2].span = Outer
          /\ emitted[2].fields["level"] = JNumber(0)
          /\ emitted[2].fields["other_field"] = JNumber(7)
          /\ emitted[2].fields["elapsed_time"].k = "Number"
          /\ emitted[2].fields["elapsed_time"].v >= SleepMs
          /\ emitted[1].fields["elapsed_time"].v + SleepMs
                 <= emitted[2].fields["elapsed_time"].v

\* the test has run to its end, with time passing besides the sleep
C4_Witness ==
    /\ pc = Done
    /\ Len(emitted) = 2
    /\ emitted[1].fields["elapsed_time"].v > 0
    /\ emitted[2].fields["elapsed_time"].v > SleepMs

\* C5: every span whose close the host has notified has exactly one record
\* among those printed, and every other span has none.
C5_OneRecordPerClosedSpan ==
    \A s \in Spans : Cardinality(Records(s)) = IF s \in closed THEN 1 ELSE 0

\* C6: the record a close prints is that of the closing span and holds, under
\* elapsed_time, the count of milliseconds computed at that close (0 for a
\* span without a start instant), a number that is not negative, whatever the
\* store held under that name.
C6_ElapsedOverwrites ==
    [][\A id \in Spans :
          (Close(id) /\ emitted' # emitted) =>
              LET millis == IF instant[id] = NoInstant THEN 0 ELSE now - instant[id]
              IN  /\ millis >= 0
                  /\ Len(emitted') = Len(emitted) + 1
                  /\ Printed.span = id
                  /\ Printed.fields["elapsed_time"] = JNumber(millis)]_vars

\* a close has printed the record of a span whose store had a field named
\* elapsed_time
C6_Witness ==
    /\ "elapsed_time_taken" \in found
    /\ emitted # <<>>
    /\ emitted[Len(emitted)].fields["elapsed_time"].k = "Number"

\* C7: an event raised while no span is current prints no record and changes
\* no store and no start instant.
C7_EventWithoutSpan ==
    [][\A event \in EventSets, guarded \in BOOLEAN :
          (Event(event, guarded) /\ lookup_current = NoSpan) =>
              UNCHANGED <<heap, slot, instant, emitted>>]_vars

\* an event without a current span has been handled while a span with
\* fields and a start instant was live
C7_Witness ==
    /\ found = {"no_current_span"}
    /\ crashed = "no"
    /\ \E s \in Live : Store(s) # EmptyHash /\ instant[s] # NoInstant

\* C8: on_event returns normally from an event raised while no span is
\* current.
C8_EventReturns == "no_current_span" \in found => crashed = "no"

\* C9: every on_close returns normally and prints an elapsed time within the
\* range of a u64, however long ago the span was entered.
C9_ElapsedSaturates ==
    [][\A id \in Spans :
          Close(id) =>
              /\ crashed' = "no"
              /\ emitted' # emitted
              /\ Printed.fields["elapsed_time"].v \in 0..U64Max]_vars

\* C10: the close of a span that has no start instant returns normally and
\* prints a record with elapsed_time = 0.
C10_NeverEntered ==
    [][\A id \in Spans :
          (Close(id) /\ instant[id] = NoInstant) =>
              /\ crashed' = "no"
              /\ Len(emitted') = Len(emitted) + 1
              /\ Printed.span = id
              /\ Printed.fields["elapsed_time"] = JNumber(0)]_vars

\* a span that was never entered has been closed, later than the clock's
\* origin
C10_Witness ==
    /\ "no_instant" \in found
    /\ now > 0
    /\ emitted # <<>>
    /\ emitted[Len(emitted)].fields["elapsed_time"] = JNumber(0)

\* the kinds the visitor has a method of their own for
OwnKinds == {"i64", "u64", "f64", "f64nan", "bool", "str"}

\* the debug rendering of the debuggable values offered
Rendering(x) ==
    IF x = "none" THEN "None" ELSE IF x = "unit" THEN "()" ELSE "\"s\""

\* after fields were offered, the store holds an entry under the name of every
\* field offered, and the debug rendering of those of another kind
Holds(store, fields) ==
    \A n \in Names :
        fields[n] # Empty =>
            /\ store[n] # Absent
            /\ fields[n].k \notin OwnKinds =>
                   store[n] = JString(Rendering(fields[n].v))

\* C11: every field offered by creation attributes, by an update or by an
\* event, of whatever kind, has an entry under its name in the target store
\* afterwards, and a value of any other kind than i64, u64, f64, bool and str
\* is stored as the string of its debug rendering.
C11_EveryFieldStored ==
    [][\A fields \in KindSets :
          /\ \A p \in Spans \cup {NoSpan} :
                NewSpan(p, fields) =>
                    Holds(StoreNext(Cardinality(created')), fields)
          /\ \A id \in Spans :
                RecordFields(id, fields) => Holds(StoreNext(id), fields)
          /\ \A guarded \in BOOLEAN :
                (Event(fields, guarded) /\ lookup_current # NoSpan) =>
                    Holds(StoreNext(lookup_current), fields)]_vars

\* a store holds the two fields of one field set, the debuggable one as its
\* rendering, and the span has an instant, so that it was entered
C11_Witness ==
    \E s \in Live :
        /\ Store(s)["level"] = JNumber(7)
        /\ Store(s)["other_field"] = JString("None")
        /\ instant[s] # NoInstant
        /\ found = {}

C14_ElapsedOnlyAtClose ==
    [][/\ \A s \in Live : Store(s)["elapsed_time"] = Absent
       /\ \A s \in Live' : StoreNext(s)["elapsed_time"] = Absent
       /\ \A a \in Addrs : heap'[a]["elapsed_time"] = Absent
       /\ emitted' # emitted =>
              \E id \in Spans :
                  /\ Close(id)
                  /\ emitted' = Append(emitted, Printed)
                  /\ Printed.span = id
                  /\ Printed.fields["elapsed_time"] # Absent
                  /\ Records(id) = {}]_vars

\* a close has printed a record with its elapsed_time while a span entered
\* earlier, with a field of its own, is still live
C14_Witness ==
    /\ emitted # <<>>
    /\ emitted[1].fields["elapsed_time"].k = "Number"
    /\ \E s \in Live :
          /\ instant[s] # NoInstant /\ instant[s] < now
          /\ Store(s)["level"] # Absent
          /\ Store(s)["elapsed_time"] = Absent

\* C15: the creation of a span gives it no start instant, whether or not its
\* parent has one, and changes no other span's; the first on_enter of the span
\* itself sets it to the time of that entry; and the elapsed time printed at
\* its close is the time since that entry, whatever the parent's start instant.
C15_OwnStartInstant ==
    [][/\ \A p \in Spans \cup {NoSpan}, attrs \in AttrSets :
             NewSpan(p, attrs) =>
                 /\ instant'[Cardinality(created')] = NoInstant
                 /\ \A other \in Live : instant'[other] = instant[other]
       /\ \A id \in Spans :
             (Enter(id) /\ instant[id] = NoInstant) =>
                 /\ instant'[id] = now
                 /\ \A other \in Live \ {id} : instant'[other] = instant[other]
       /\ \A id \in Spans :
             (Close(id) /\ emitted' # emitted /\ instant[id] # NoInstant) =>
                 Printed.fields["elapsed_time"] = JNumber(now - instant[id])]_vars

\* a child entered later than its parent: both are entered and their start
\* instants differ
C15_Witness ==
    \E c \in Live :
        /\ parent[c] # NoSpan
        /\ OnStack(c) /\ OnStack(parent[c])
        /\ instant[parent[c]] # NoInstant
        /\ instant[c] > instant[parent[c]]

\* C16: while on_new_span creates a child, the thread holds no write guard of
\* the parent's extensions (a read guard at most), and a thread that has
\* returned from on_new_span holds no guard of them.
C16_ParentReadLock ==
    \A t \in Threads :
        /\ thread[t].hook = "on_new_span" =>
               \A s \in Spans \ {thread[t].id} : lock[s].writer # t
        /\ ~InHook(t) => Held(t) = {}

\* the span whose extensions the next step of the thread asks a guard of
Asks(t) ==
    IF thread[t].pc = "parent" THEN parent[thread[t].id]
    ELSE IF thread[t].pc \in {"record", "lock", "read"} THEN thread[t].id
    ELSE NoSpan

\* the guard the thread asks for cannot be had now
Blocked(t) ==
    /\ Asks(t) # NoSpan
    /\ IF thread[t].pc = "read" THEN ~CanRead(Asks(t)) ELSE ~CanWrite(Asks(t))

\* C17: a thread in a hook holds a guard of at most one span's extensions; a
\* thread in no hook holds none; and a thread that has to wait for a guard
\* holds none itself and waits for a thread that does not have to wait, so
\* that no threads wait for each other.
C17_OneSlotPerHook ==
    \A t \in Threads :
        /\ Cardinality(Held(t)) <= 1
        /\ ~InHook(t) => Held(t) = {}
        /\ Blocked(t) =>
               /\ Held(t) = {}
               /\ \E u \in Threads \ {t} : Asks(t) \in Held(u) /\ ~Blocked(u)

\* two threads, in different hooks, hold guards of the extensions of two
\* different spans at the same time
C17_Witness ==
    \E t, u \in Threads :
        /\ Held(t) # {} /\ Held(u) # {}
        /\ Held(t) # Held(u)
        /\ thread[t].hook # thread[u].hook

\* C18: where the host notifies the layer of a span's creation first and of
\* its close last and once, every live span it was notified of has a store,
\* which is no other span's; on_new_span does not fail, with or without a
\* parent and attributes, and under a parent without a store the new span's
\* store holds the attributes and nothing else; on_event and on_record do not
\* fail, and on_close fails in no other way than by its elapsed time.
C18_StoreAlwaysAttached ==
    [][/\ \A s \in (Live' \cap Notified) :
             /\ slot'[s] # NoAddr
             /\ \A r \in (Live' \cap Notified) \ {s} : slot'[r] # slot'[s]
       /\ \A p \in Spans \cup {NoSpan}, attrs \in AttrSets :
             NewSpan(p, attrs) =>
                 /\ crashed' = "no"
                 /\ (p # NoSpan /\ slot[p] = NoAddr) =>
                        StoreNext(Cardinality(created')) =
                            [n \in Names |-> IF attrs[n] = Empty THEN Absent
                                             ELSE JNumber(attrs[n].v)]
       /\ \A event \in EventSets, guarded \in BOOLEAN :
             (Event(event, guarded) /\ lookup_current # NoSpan) => crashed' = "no"
       /\ \A id \in Notified, values \in ValueSets :
             RecordFields(id, values) => crashed' = "no"
       /\ \A id \in Notified :
             (Close(id) /\ crashed' # "no") =>
                 /\ instant[id] # NoInstant
                 /\ now - instant[id] > U64Max]_vars

\* the child of a parent without a store is live and entered; its store holds
\* the field of its attributes, and no hook has failed
C18_Witness ==
    \E s \in Live :
        /\ parent[s] = ForeignSpan
        /\ slot[ForeignSpan] = NoAddr
        /\ slot[s] # NoAddr
        /\ Store(s) = [EmptyHash EXCEPT !["level"] = JNumber(1)]
        /\ lookup_current = s
        /\ crashed = "no"

\* a merge of the thread is under way in the store of the span
Merging(t, s) ==
    /\ thread[t].hook \in {"on_event", "on_record"}
    /\ thread[t].pc = "locked"
    /\ thread[t].id = s

\* the fields hold both writes of a merge or neither
AllOrNone(hash) == (hash["level"] = Absent) <=> (hash["other_field"] = Absent)

\* C19: whatever the interleaving of a merge on a parent (on_record, or an
\* event of a thread whose current span it is) with the creation of a child
\* on another thread, the fields the child takes from its parent, and so the
\* store it gets, hold all the writes of that merge or none of them.
C19_SnapshotAtomic ==
    /\ \A t \in Threads :
          thread[t].hook = "on_new_span" => AllOrNone(thread[t].local)
    /\ \A s \in Live :
          (slot[s] # NoAddr /\ \A t \in Threads : ~Merging(t, s)) => AllOrNone(Store(s))

\* a merge has written the first of its two fields into the store of a span
\* while another thread, creating a child of that span, is about to take the
\* guard of the span's extensions
C19_Witness ==
    \E t, u \in Threads, s \in Live :
        /\ Merging(t, s)
        /\ ~AllOrNone(Store(s))
        /\ thread[u].hook = "on_new_span"
        /\ thread[u].pc = "parent"
        /\ parent[thread[u].id] = s

=============================================================================
